---- MODULE Spec2Model ----
(***************************************************************************)
(* Model of the retrieval pipeline of the Document RAG API:                *)
(*   backend/app/services/document_service.py      (ingestion, chunking)   *)
(*   backend/app/services/vector_store_service.py  (index add/query/delete)*)
(*   backend/app/services/rag_service.py           (answering)             *)
(*                                                                         *)
(* Texts are sequences of one-character strings.  Functions that can raise *)
(* are operators returning a record with an `exc` field; every try/except  *)
(* of the source is an explicit test of that field.  Failures of the       *)
(* external providers (Chroma, the embedding model, the chat model, the    *)
(* file readers) are inputs of the actions.                                *)
(***************************************************************************)
EXTENDS Integers, Sequences, FiniteSets, Bags, TLC

(* ------------------------------------------------------------------ *)
(* Bounds of the model                                                  *)
(* ------------------------------------------------------------------ *)

\* largest number of entries the modelled index is allowed to hold
MaxEntries == 2

\* largest top_k a query is issued with
MaxTopK == 2

\* longest text the chunker is run on by itself
MaxTextLen == 4

\* an environment fault is either permanent or clears after at most this
\* many failed provider calls
MaxFaults == 1

\* settings.CHUNK_SIZE is 1000 characters in config.py; the modelled texts
\* are a few characters long, and the splitter is run with this size
CHUNK_SIZE == 3

\* settings.CHUNK_OVERLAP is 200 characters in config.py; the splitter is
\* run with this overlap
CHUNK_OVERLAP == 1

(* ------------------------------------------------------------------ *)
(* Program constants                                                    *)
(* ------------------------------------------------------------------ *)

\* stop_after_attempt(3) on get_vector_store
StoreAttempts == 3

\* stop_after_attempt(3) on add_documents_to_vectorstore
AddAttempts == 3

\* stop_after_attempt(3) on query_vectorstore
QueryAttempts == 3

\* stop_after_attempt(3) on delete_document_from_vectorstore
DeleteAttempts == 3

\* stop_after_attempt(2) on get_llm
LlmAttempts == 2

\* stop_after_attempt(2) on query_documents
AnswerAttempts == 2

(* ------------------------------------------------------------------ *)
(* Text helpers (Python str operations used by the source)              *)
(* ------------------------------------------------------------------ *)

None == "None"

\* Python return values: None, and an int
NoneValue == [type |-> "NoneType"]
IntValue(n) == [type |-> "int", value |-> n]

\* the whitespace characters of the modelled alphabet
IsSpace(c) == c \in {" ", "\n"}

\* str.strip() leaves nothing: the text is empty or whitespace only
IsBlank(text) == \A i \in 1..Len(text) : IsSpace(text[i])

RECURSIVE lstrip(_)
lstrip(text) ==
    IF text = <<>> THEN <<>>
    ELSE IF IsSpace(Head(text)) THEN lstrip(Tail(text)) ELSE text

RECURSIVE rstrip(_)
rstrip(text) ==
    IF text = <<>> THEN <<>>
    ELSE IF IsSpace(text[Len(text)]) THEN rstrip(SubSeq(text, 1, Len(text) - 1))
    ELSE text

\* str.strip()
strip(text) == rstrip(lstrip(text))

RECURSIVE Concat(_)
Concat(parts) ==
    IF parts = <<>> THEN <<>> ELSE Head(parts) \o Concat(Tail(parts))

(* ------------------------------------------------------------------ *)
(* RecursiveCharacterTextSplitter(chunk_size, chunk_overlap, len)       *)
(* as constructed in create_chunks_with_metadata, with the default     *)
(* separators "\n\n", "\n", " ", "" (each a sequence of characters).    *)
(* ------------------------------------------------------------------ *)
\* Separators without the final "": no fallback to single characters
Separators_no_chars == << <<"\n", "\n">>, <<"\n">>, <<" ">> >>

Separators == << <<"\n", "\n">>, <<"\n">>, <<" ">>, <<>> >>

\* the text starts with the separator sep
StartsWith(text, sep) ==
    Len(text) >= Len(sep) /\ SubSeq(text, 1, Len(sep)) = sep

\* re.split keeping the separator at the start of the piece that follows
\* it; empty pieces are dropped.  The separator "" splits into characters.
RECURSIVE SplitKeep(_, _, _)
SplitKeep(text, sep, cur) ==
    IF text = <<>> THEN (IF cur = <<>> THEN <<>> ELSE <<cur>>)
    ELSE IF sep = <<>>
         THEN <<<<Head(text)>>>> \o SplitKeep(Tail(text), sep, <<>>)
    ELSE IF StartsWith(text, sep)
         THEN (IF cur = <<>> THEN <<>> ELSE <<cur>>)
              \o SplitKeep(SubSeq(text, Len(sep) + 1, Len(text)), sep, sep)
         ELSE SplitKeep(Tail(text), sep, Append(cur, Head(text)))

\* _join_docs: join with the (empty) merge separator, strip, drop if empty
JoinDocs(current_doc) ==
    LET text == strip(Concat(current_doc))
    IN  IF text = <<>> THEN <<>> ELSE <<text>>

\* the `while` of _merge_splits: pop pieces off the front of current_doc
RECURSIVE PopFront(_, _, _)
PopFront(current_doc, total, len) ==
    IF total > CHUNK_OVERLAP \/ (total + len > CHUNK_SIZE /\ total > 0)
    THEN PopFront(Tail(current_doc), total - Len(Head(current_doc)), len)
    ELSE [current_doc |-> current_doc, total |-> total]

\* _merge_splits(splits, separator = "")
RECURSIVE MergeSplits(_, _, _)
MergeSplits(splits, current_doc, total) ==
    IF splits = <<>> THEN JoinDocs(current_doc)
    ELSE LET d    == Head(splits)
             len  == Len(d)
             full == total + len > CHUNK_SIZE /\ Len(current_doc) > 0
             kept == IF full THEN PopFront(current_doc, total, len)
                     ELSE [current_doc |-> current_doc, total |-> total]
         IN  (IF full THEN JoinDocs(current_doc) ELSE <<>>)
             \o MergeSplits(Tail(splits), Append(kept.current_doc, d),
                            kept.total + len)

\* index of the first separator that is "" or occurs in the text
RECURSIVE PickSeparator(_, _, _)
PickSeparator(text, separators, i) ==
    IF i >= Len(separators) THEN Len(separators)
    ELSE IF \/ separators[i] = <<>>
            \/ \E j \in 1..Len(text) :
                  StartsWith(SubSeq(text, j, Len(text)), separators[i])
         THEN i
         ELSE PickSeparator(text, separators, i + 1)

\* _split_text(text, separators)
RECURSIVE SplitText(_, _)
RECURSIVE SplitLoop(_, _, _)
SplitLoop(splits, good, new_separators) ==
    IF splits = <<>>
    THEN (IF good = <<>> THEN <<>> ELSE MergeSplits(good, <<>>, 0))
    ELSE LET s == Head(splits)
         IN  IF Len(s) < CHUNK_SIZE
             THEN SplitLoop(Tail(splits), Append(good, s), new_separators)
             ELSE (IF good = <<>> THEN <<>> ELSE MergeSplits(good, <<>>, 0))
                  \o (IF new_separators = <<>> THEN <<s>>
                      ELSE SplitText(s, new_separators))
                  \o SplitLoop(Tail(splits), <<>>, new_separators)

SplitText(text, separators) ==
    LET i   == PickSeparator(text, separators, 1)
        sep == separators[i]
        new_separators ==
            IF sep = <<>> THEN <<>>
            ELSE SubSeq(separators, i + 1, Len(separators))
    IN  SplitLoop(SplitKeep(text, sep, <<>>), <<>>, new_separators)

\* text_splitter.split_text(text)
split_text(text) == SplitText(text, Separators)

(* ------------------------------------------------------------------ *)
(* Inputs                                                               *)
(* ------------------------------------------------------------------ *)

\* owner identities (User.id, a uuid string)
Users == {"u1", "u2"}

\* the stored documents: an upload or a scrape draws a fresh uuid for the
\* document, so an id names one file of one owner.  One original file name
\* per extension process_document tells apart.
Documents ==
    { [document_id |-> "d1", filename |-> "a.pdf",  user_id |-> "u1"],
      [document_id |-> "d2", filename |-> "c.txt",  user_id |-> "u2"],
      [document_id |-> "d3", filename |-> "b.docx", user_id |-> "u2"],
      [document_id |-> "d4", filename |-> "d.png",  user_id |-> "u1"] }

\* document ids (str(uuid.uuid4()), never empty)
DocIds == {doc.document_id : doc \in Documents}

\* the stored document of an id
DocumentOf(document_id) ==
    CHOOSE doc \in Documents : doc.document_id = document_id

\* the extension a stored path ends with: the path is
\* DOCUMENTS_DIRECTORY/{document_id}_{filename}
endswith(filename, ext) ==
    \/ filename = "a.pdf"  /\ ext = ".pdf"
    \/ filename = "b.docx" /\ ext = ".docx"
    \/ filename = "c.txt"  /\ ext = ".txt"

\* texts of one unit (a PDF page, a DOCX paragraph, a text file)
Texts == { <<" ">>, <<"a">>, <<"a", "b", "c", "d">> }

\* what reading one PDF page gives: its text, or an exception
PageReads == [ok : {TRUE}, text : Texts] \cup {[ok |-> FALSE, text |-> <<>>]}

\* what is on disk behind a path: whether the reader opens it, and its units
FileContents ==
    {[readable |-> FALSE, units |-> <<>>]}
    \cup [readable : {TRUE},
          units : {<<>>} \cup {<<u>> : u \in PageReads}
                  \cup {<<u, [ok |-> TRUE, text |-> <<"a">>]>> : u \in PageReads}]

(* ------------------------------------------------------------------ *)
(* document_service.py: chunking and extraction                         *)
(* ------------------------------------------------------------------ *)

\* the decimal digits
Digits == <<"0", "1", "2", "3", "4", "5", "6", "7", "8", "9">>

\* str(n) of a natural number n
RECURSIVE str(_)
str(n) == IF n < 10 THEN Digits[n + 1]
          ELSE str(n \div 10) \o Digits[(n % 10) + 1]

\* Metadata with the page of a unit without page number left empty
Metadata_blank_page(chunk, page_num, document_id, filename, user_id) ==
    [ document_id |-> document_id,
      document    |-> filename,
      page        |-> IF page_num # NoneValue THEN str(page_num.value) ELSE "",
      text        |-> chunk,
      user_id     |-> user_id,
      source      |-> IF page_num # NoneValue
                      THEN <<filename, " (page ", str(page_num.value), ")">>
                      ELSE <<filename>> ]

\* the metadata dictionary built for one chunk (created_at, a wall-clock
\* stamp no operation reads, is left out); page_num is None or an int
Metadata(chunk, page_num, document_id, filename, user_id) ==
    [ document_id |-> document_id,
      document    |-> filename,
      page        |-> IF page_num # NoneValue THEN str(page_num.value) ELSE "0",
      text        |-> chunk,
      user_id     |-> user_id,
      source      |-> IF page_num # NoneValue
                      THEN <<filename, " (page ", str(page_num.value), ")">>
                      ELSE <<filename>> ]

\* create_chunks_with_metadata(text_by_page, document_id, filename, user_id)
RECURSIVE create_chunks_with_metadata(_, _, _, _)
create_chunks_with_metadata(text_by_page, document_id, filename, user_id) ==
    IF text_by_page = <<>> THEN <<>>
    ELSE LET page_num == Head(text_by_page)[1]
             chunks   == split_text(Head(text_by_page)[2])
         IN  [i \in 1..Len(chunks) |->
                 [text     |-> chunks[i],
                  metadata |-> Metadata(chunks[i], page_num, document_id,
                                        filename, user_id)]]
             \o create_chunks_with_metadata(Tail(text_by_page), document_id,
                                            filename, user_id)

\* the page number i + 1 of enumerate(pdf_reader.pages): the 1-based
\* position i of the page
PageLabel(i) == IntValue(i)

\* the loop of process_pdf over pdf_reader.pages: (i + 1, page_text) of the
\* non-blank pages
RECURSIVE TextByPage(_, _)
TextByPage(units, i) ==
    IF i > Len(units) THEN <<>>
    ELSE (IF IsBlank(units[i].text) THEN <<>>
          ELSE << <<PageLabel(i), units[i].text>> >>)
         \o TextByPage(units, i + 1)

\* process_pdf: any exception (opening the reader, extracting a page) is
\* caught by the function's one try/except, which returns []
process_pdf(file, document_id, filename, user_id) ==
    IF ~file.readable \/ (\E i \in 1..Len(file.units) : ~file.units[i].ok)
    THEN <<>>
    ELSE create_chunks_with_metadata(TextByPage(file.units, 1), document_id,
                                     filename, user_id)

\* "\n".join(full_text) over the non-blank paragraphs
RECURSIVE JoinParagraphs(_, _)
JoinParagraphs(units, first) ==
    IF units = <<>> THEN <<>>
    ELSE IF IsBlank(Head(units).text) THEN JoinParagraphs(Tail(units), first)
    ELSE (IF first THEN <<>> ELSE <<"\n">>) \o Head(units).text
         \o JoinParagraphs(Tail(units), FALSE)

\* process_docx
process_docx(file, document_id, filename, user_id) ==
    IF ~file.readable THEN <<>>
    ELSE create_chunks_with_metadata(
             << <<NoneValue, JoinParagraphs(file.units, TRUE)>> >>,
             document_id, filename, user_id)

\* the text f.read() returns for a text file
FileText(file) == IF file.units = <<>> THEN <<>> ELSE file.units[1].text

\* process_txt
process_txt(file, document_id, filename, user_id) ==
    IF ~file.readable THEN <<>>
    ELSE IF IsBlank(FileText(file)) THEN <<>>
    ELSE create_chunks_with_metadata(<< <<NoneValue, FileText(file)>> >>,
                                     document_id, filename, user_id)

(* ------------------------------------------------------------------ *)
(* Environment faults                                                   *)
(* ------------------------------------------------------------------ *)

\* the behaviour of one external provider during one call of the service:
\* its first `ok` calls succeed, the next `bad` calls fail (all later calls
\* when `forever`), the calls after those succeed
NoFault == [ok |-> 0, bad |-> 0, forever |-> FALSE]

\* fails on every call
Down == [ok |-> 0, bad |-> 0, forever |-> TRUE]

\* answers once, then fails on every call
Late == [ok |-> 1, bad |-> 0, forever |-> TRUE]

\* the behaviours an action draws from
FaultSet ==
    {[ok |-> 0, bad |-> n, forever |-> FALSE] : n \in 0..MaxFaults}
    \cup {Down, Late}

\* the next call to the provider fails
Fails(f) == f.ok = 0 /\ (f.forever \/ f.bad > 0)

\* the behaviour left after one call
After(f) ==
    IF f.ok > 0 THEN [f EXCEPT !.ok = f.ok - 1]
    ELSE IF ~f.forever /\ f.bad > 0 THEN [f EXCEPT !.bad = f.bad - 1]
    ELSE f

(* ------------------------------------------------------------------ *)
(* vector_store_service.py                                              *)
(* ------------------------------------------------------------------ *)

\* the value of the global _vector_store once Chroma(...) has returned
Chroma == "Chroma"

\* get_vector_store under @retry(stop_after_attempt(3)): while the global
\* is None each attempt runs get_embeddings() and Chroma(...); a failed
\* attempt re-raises and is retried, the last one surfaces (RetryError).
\* `opens` counts the constructions attempted.
RECURSIVE get_vector_store_from(_, _, _, _)
get_vector_store_from(vs, fStore, attempt, opens) ==
    IF vs # None
    THEN [exc |-> FALSE, vs |-> vs, fStore |-> fStore, opens |-> opens]
    ELSE IF ~Fails(fStore)
    THEN [exc |-> FALSE, vs |-> Chroma, fStore |-> After(fStore),
          opens |-> opens + 1]
    ELSE IF attempt >= StoreAttempts
    THEN [exc |-> TRUE, vs |-> None, fStore |-> After(fStore), opens |-> opens + 1]
    ELSE get_vector_store_from(vs, After(fStore), attempt + 1, opens + 1)

get_vector_store(vs, fStore) == get_vector_store_from(vs, fStore, 1, 0)

\* the bag of the entries a list of chunks becomes, each entry the
\* Document(page_content = text, metadata) of one chunk: add_documents
\* gives every Document a fresh id, so equal chunks are separate entries
RECURSIVE ChunkBag(_)
ChunkBag(chunks) ==
    IF chunks = <<>> THEN EmptyBag
    ELSE SetToBag({Head(chunks)}) (+) ChunkBag(Tail(chunks))

\* add_documents keyed by content: a chunk already in the index is not
\* added again
add_documents_dedup(idx, chunks) ==
    LET new == {chunks[i] : i \in 1..Len(chunks)} \ BagToSet(idx)
    IN  idx (+) SetToBag(new)

\* vector_store.add_documents(documents)
add_documents(idx, chunks) == idx (+) ChunkBag(chunks)

\* one call of add_documents_to_vectorstore under
\* @retry(stop_after_attempt(3)), from attempt `attempt` on.
\* `opens`: store constructions attempted, `inserts`: add_documents calls.
RECURSIVE add_from(_, _, _, _, _, _, _, _)
add_from(chunks, idx, vs, fStore, fAdd, attempt, opens, inserts) ==
    LET g == get_vector_store(vs, fStore)
        last_attempt == attempt >= AddAttempts
    IN  IF g.exc
        THEN IF last_attempt
             THEN [exc |-> TRUE, index |-> idx, vs |-> g.vs,
                   opens |-> opens + g.opens, inserts |-> inserts,
                   attempts |-> attempt]
             ELSE add_from(chunks, idx, g.vs, g.fStore, fAdd, attempt + 1,
                           opens + g.opens, inserts)
        ELSE IF Fails(fAdd)
        THEN IF last_attempt
             THEN [exc |-> TRUE, index |-> idx, vs |-> g.vs,
                   opens |-> opens + g.opens, inserts |-> inserts + 1,
                   attempts |-> attempt]
             ELSE add_from(chunks, idx, g.vs, g.fStore, After(fAdd),
                           attempt + 1, opens + g.opens, inserts + 1)
        ELSE [exc |-> FALSE, index |-> add_documents(idx, chunks), vs |-> g.vs,
              opens |-> opens + g.opens, inserts |-> inserts + 1,
              attempts |-> attempt]

\* add_documents_to_vectorstore(chunks)
add_documents_to_vectorstore(chunks, idx, vs, fStore, fAdd) ==
    IF chunks = <<>>
    THEN [exc |-> FALSE, index |-> idx, vs |-> vs, opens |-> 0,
          inserts |-> 0, attempts |-> 1]
    ELSE add_from(chunks, idx, vs, fStore, fAdd, 1, 0, 0)

\* the entries of the bag idx that are in the set keep, with their copies
FilterBag(idx, keep) == [e \in BagToSet(idx) \cap keep |-> idx[e]]

\* how often the entry e occurs in the sequence r
Occurrences(r, e) == Cardinality({i \in 1..Len(r) : r[i] = e})

\* distance between the embeddings of a query and of an entry's text: the
\* embedding model is deterministic, so equal texts are at distance 0
Dist(query, text) ==
    IF query = text THEN 0
    ELSE IF \E i \in 1..Len(query), j \in 1..Len(text) :
              ~IsSpace(query[i]) /\ query[i] = text[j]
         THEN 1
         ELSE 2

Min(a, b) == IF a <= b THEN a ELSE b

\* similarity_search ignoring k: every entry that passes the filter is
\* returned
similarity_search_all(idx, query, k, filter_user) ==
    LET Passes(e) == filter_user = None \/ e.metadata.user_id = filter_user
        matching  == FilterBag(idx, {e \in BagToSet(idx) : Passes(e)})
        n         == BagCardinality(matching)
    IN  { r \in [1..n -> BagToSet(matching)] :
            /\ \A e \in BagToSet(matching) : Occurrences(r, e) = matching[e]
            /\ \A i \in 1..(n - 1) :
                   Dist(query, r[i].text) <= Dist(query, r[i + 1].text) }

\* vector_store.similarity_search(query, k, filter): every ranking Chroma
\* can return: the k nearest entries that pass the filter (all of them
\* when fewer pass), nearest first, ties in any order
similarity_search(idx, query, k, filter_user) ==
    LET Passes(e) == filter_user = None \/ e.metadata.user_id = filter_user
        matching  == FilterBag(idx, {e \in BagToSet(idx) : Passes(e)})
        n         == Min(k, BagCardinality(matching))
    IN  { r \in [1..n -> BagToSet(matching)] :
            /\ \A e \in BagToSet(matching) : Occurrences(r, e) <= matching[e]
            /\ \A i \in 1..(n - 1) :
                   Dist(query, r[i].text) <= Dist(query, r[i + 1].text)
            /\ \A e \in BagToSet(matching) :
                   Occurrences(r, e) < matching[e]
                       => Dist(query, r[n].text) <= Dist(query, e.text) }

\* Python truth value of a user_id / document_id argument
Truthy(x) == x \notin {None, ""}

\* OwnerFilter with the user_id test lost: every search is unfiltered
OwnerFilter_none(user_id) == None

\* the filter query_vectorstore searches with: the owner filter
\* {"user_id": {"$eq": user_id}} for a truthy user_id, none otherwise
OwnerFilter(user_id) == IF Truthy(user_id) THEN user_id ELSE None

\* query_except re-raising what it caught
query_except_reraise(e) == e

\* the `except Exception` blocks of query_vectorstore: the error e is
\* logged and [] is returned, nothing is raised
query_except(e) == FALSE

\* the body of query_vectorstore, once: every result it can give
query_vectorstore_once(query, top_k, user_id, idx, vs, fStore, fSearch) ==
    IF IsBlank(query)
    THEN {[exc |-> FALSE, docs |-> <<>>, vs |-> vs, fStore |-> fStore,
           fSearch |-> fSearch, opens |-> 0, searches |-> 0,
           searched |-> FALSE]}
    ELSE LET g == get_vector_store(vs, fStore)
         IN  IF g.exc
             THEN {[exc |-> query_except(TRUE), docs |-> <<>>, vs |-> g.vs,
                    fStore |-> g.fStore, fSearch |-> fSearch,
                    opens |-> g.opens, searches |-> 0, searched |-> FALSE]}
             ELSE IF Fails(fSearch)
             THEN {[exc |-> query_except(TRUE), docs |-> <<>>, vs |-> g.vs,
                    fStore |-> g.fStore, fSearch |-> After(fSearch),
                    opens |-> g.opens, searches |-> 1, searched |-> FALSE]}
             ELSE {[exc |-> FALSE, docs |-> r, vs |-> g.vs,
                    fStore |-> g.fStore, fSearch |-> After(fSearch),
                    opens |-> g.opens, searches |-> 1, searched |-> TRUE] :
                   r \in similarity_search(idx, query, top_k,
                                            OwnerFilter(user_id))}

\* query_vectorstore under @retry(stop_after_attempt(3)): an attempt that
\* raises is run again, the last one surfaces
RECURSIVE query_from(_, _, _, _, _, _, _, _, _, _)
query_from(query, top_k, user_id, idx, vs, fStore, fSearch, attempt, opens, searches) ==
    UNION { IF o.exc /\ attempt < QueryAttempts
            THEN query_from(query, top_k, user_id, idx, o.vs, o.fStore,
                            o.fSearch, attempt + 1, opens + o.opens,
                            searches + o.searches)
            ELSE {[exc |-> o.exc, docs |-> o.docs, vs |-> o.vs,
                   fStore |-> o.fStore, fSearch |-> o.fSearch,
                   opens |-> opens + o.opens,
                   searches |-> searches + o.searches,
                   searched |-> o.searched, attempts |-> attempt]} :
            o \in query_vectorstore_once(query, top_k, user_id, idx, vs,
                                         fStore, fSearch) }

\* query_vectorstore(query, top_k, user_id)
query_vectorstore(query, top_k, user_id, idx, vs, fStore, fSearch) ==
    query_from(query, top_k, user_id, idx, vs, fStore, fSearch, 1, 0, 0)

\* the entries collection.get(where = {"document_id": {"$eq": id}}) finds
Matching(idx, document_id) ==
    FilterBag(idx, {e \in BagToSet(idx) :
                       e.metadata.document_id = document_id})

\* collection_delete with the where filter lost: every entry is deleted
collection_delete_all(idx, document_id) == EmptyBag

\* collection.delete(ids = matching_docs["ids"])
collection_delete(idx, document_id) ==
    FilterBag(idx, {e \in BagToSet(idx) :
                       e.metadata.document_id # document_id})

\* not_found_raises with the `else` branch raising instead of warning
not_found_raises_always(count) == count = 0

\* the `else` branch of delete_document_from_vectorstore: when no chunk of
\* the document is found a warning is logged and nothing is raised
not_found_raises(count) == FALSE

\* delete_document_from_vectorstore under @retry(stop_after_attempt(3)),
\* from attempt `attempt` on.  The function has no return statement with a
\* value: the number of chunks deleted is only logged (`removed`).
\* `failures`: the attempts in which the store could not be opened or the
\* collection call failed; `failed` counts those of the earlier attempts.
RECURSIVE delete_from(_, _, _, _, _, _, _, _)
delete_from(document_id, idx, vs, fStore, fDelete, attempt, opens, failed) ==
    LET g == get_vector_store(vs, fStore)
        last_attempt == attempt >= DeleteAttempts
        count == BagCardinality(Matching(idx, document_id))
        failures == IF g.exc \/ Fails(fDelete) THEN failed + 1 ELSE failed
    IN  IF g.exc \/ Fails(fDelete) \/ not_found_raises(count)
        THEN IF last_attempt
             THEN [exc |-> TRUE, index |-> idx, vs |-> g.vs,
                   ret |-> NoneValue, removed |-> 0,
                   opens |-> opens + g.opens, attempts |-> attempt,
                   failures |-> failures]
             ELSE delete_from(document_id, idx, g.vs, g.fStore,
                              IF g.exc THEN fDelete ELSE After(fDelete),
                              attempt + 1, opens + g.opens, failures)
        ELSE [exc |-> FALSE,
              index |-> IF count > 0
                        THEN collection_delete(idx, document_id) ELSE idx,
              vs |-> g.vs, ret |-> NoneValue, removed |-> count,
              opens |-> opens + g.opens, attempts |-> attempt,
              failures |-> failures]

\* delete_document_from_vectorstore(document_id)
delete_document_from_vectorstore(document_id, idx, vs, fStore, fDelete) ==
    IF ~Truthy(document_id)
    THEN [exc |-> FALSE, index |-> idx, vs |-> vs, ret |-> NoneValue,
          removed |-> 0, opens |-> 0, attempts |-> 1, failures |-> 0]
    ELSE delete_from(document_id, idx, vs, fStore, fDelete, 1, 0, 0)

(* ------------------------------------------------------------------ *)
(* document_service.py: process_document                                *)
(* ------------------------------------------------------------------ *)

\* the extractor process_document dispatches to, by the path's extension;
\* supported is FALSE on the `else` branch (unsupported file type)
Extract(file, document_id, filename, user_id) ==
    IF endswith(filename, ".pdf")
    THEN [supported |-> TRUE,
          text_chunks |-> process_pdf(file, document_id, filename, user_id)]
    ELSE IF endswith(filename, ".docx")
    THEN [supported |-> TRUE,
          text_chunks |-> process_docx(file, document_id, filename, user_id)]
    ELSE IF endswith(filename, ".txt")
    THEN [supported |-> TRUE,
          text_chunks |-> process_txt(file, document_id, filename, user_id)]
    ELSE [supported |-> FALSE, text_chunks |-> <<>>]

\* ingest_except re-raising what it caught
ingest_except_reraise(e) == e

\* has_chunks with the test lost: the add is called whatever was extracted
has_chunks_always(text_chunks) == TRUE

\* `if text_chunks and len(text_chunks) > 0` of process_document
has_chunks(text_chunks) == text_chunks # <<>>

\* the `except Exception` around add_documents_to_vectorstore in
\* process_document: the error e is logged and execution continues
ingest_except(e) == FALSE

\* process_document(file_path, document_id, filename, user_id); `file` is
\* what is stored at file_path.  exc: an exception leaves the function.
process_document(file, document_id, filename, user_id, idx, vs, fStore, fAdd) ==
    LET x == Extract(file, document_id, filename, user_id)
    IN  IF ~x.supported \/ ~has_chunks(x.text_chunks)
        THEN [exc |-> FALSE, index |-> idx, vs |-> vs,
              text_chunks |-> x.text_chunks, add_called |-> FALSE,
              add_exc |-> FALSE, opens |-> 0, inserts |-> 0]
        ELSE LET a == add_documents_to_vectorstore(x.text_chunks, idx, vs,
                                                   fStore, fAdd)
             IN  [exc |-> a.exc /\ ingest_except(a.exc),
                  index |-> a.index, vs |-> a.vs,
                  text_chunks |-> x.text_chunks, add_called |-> TRUE,
                  add_exc |-> a.exc, opens |-> a.opens,
                  inserts |-> a.inserts]

(* ------------------------------------------------------------------ *)
(* document_service.py: list_documents, delete_document;                *)
(* endpoints/documents.py: upload_document; endpoints/health.py         *)
(* ------------------------------------------------------------------ *)

\* the content type a client sends with a file of this name
ContentTypeOf(filename) ==
    IF filename = "a.pdf" THEN "application/pdf"
    ELSE IF filename = "b.docx"
    THEN "application/vnd.openxmlformats-officedocument.wordprocessingml.document"
    ELSE IF filename = "c.txt" THEN "text/plain"
    ELSE "image/png"

\* the content types upload_document accepts
AcceptedTypes ==
    {"application/pdf",
     "application/vnd.openxmlformats-officedocument.wordprocessingml.document"}

\* the `except Exception` of upload_document: whatever was raised inside
\* the try, the HTTPException of the content-type check included, is
\* answered with status 500
upload_except(status_code) == 500

\* upload_document for the file doc sent with content_type; fWrite is the
\* behaviour of the file system while the file is saved
upload_document(doc, content_type, fWrite) ==
    IF content_type \notin AcceptedTypes
    THEN [status_code |-> upload_except(400), stored |-> FALSE]
    ELSE IF Fails(fWrite)
    THEN [status_code |-> upload_except(500), stored |-> FALSE]
    ELSE [status_code |-> 200, stored |-> TRUE]

\* list_documents(user_id) over the stored files fs: one entry per file
\* whose name ends with .pdf, .docx or .txt; user_id is not consulted
list_documents(user_id, fs) ==
    { [id |-> doc.document_id, filename |-> doc.filename,
       content_type |-> IF endswith(doc.filename, ".pdf")
                        THEN "application/pdf"
                        ELSE IF endswith(doc.filename, ".docx")
                        THEN "application/vnd.openxmlformats-officedocument.wordprocessingml.document"
                        ELSE "text/plain"] :
        doc \in {d \in Documents :
                    /\ d.document_id \in fs
                    /\ \E ext \in {".pdf", ".docx", ".txt"} :
                          endswith(d.filename, ext)} }

\* the `except Exception` around delete_document_from_vectorstore in
\* delete_document: the error is logged and True is still returned
delete_except(e) == FALSE

\* delete_document refusing a document stored for another user
delete_document_owned(document_id, user_id, fs, idx, vs, fFs, fStore, fDelete) ==
    IF Fails(fFs) \/ document_id \notin fs
       \/ DocumentOf(document_id).user_id # user_id
    THEN [ret |-> FALSE, files |-> fs, index |-> idx, vs |-> vs,
          removed_file |-> FALSE, delete_exc |-> FALSE, removed |-> 0]
    ELSE LET d == delete_document_from_vectorstore(document_id, idx, vs,
                                                   fStore, fDelete)
         IN  [ret |-> ~d.exc,
              files |-> fs \ {document_id}, index |-> d.index, vs |-> d.vs,
              removed_file |-> TRUE, delete_exc |-> d.exc,
              removed |-> d.removed]

\* delete_document(document_id, user_id): fFs is the behaviour of the file
\* system (os.listdir, os.remove); user_id is not consulted
delete_document(document_id, user_id, fs, idx, vs, fFs, fStore, fDelete) ==
    IF Fails(fFs) \/ document_id \notin fs
    THEN [ret |-> FALSE, files |-> fs, index |-> idx, vs |-> vs,
          removed_file |-> FALSE, delete_exc |-> FALSE, removed |-> 0]
    ELSE LET d == delete_document_from_vectorstore(document_id, idx, vs,
                                                   fStore, fDelete)
         IN  [ret |-> ~(d.exc /\ delete_except(d.exc)),
              files |-> fs \ {document_id}, index |-> d.index, vs |-> d.vs,
              removed_file |-> TRUE, delete_exc |-> d.exc,
              removed |-> d.removed]

\* settings.EMBEDDING_MODEL
EMBEDDING_MODEL == "all-MiniLM-L6-v2"

\* the model behind OpenAIEmbeddings(openai_api_key=...): the class's own
\* default, an OpenAI model and not a sentence-transformers one
OpenAIEmbeddings == "OpenAIEmbeddings"

\* the model behind HuggingFaceEmbeddings(model_name=...)
HuggingFaceEmbeddings(model_name) == model_name

\* get_embeddings(): the embedding model the store is built and queried with
get_embeddings(key) ==
    IF key THEN OpenAIEmbeddings ELSE HuggingFaceEmbeddings(EMBEDDING_MODEL)

\* status_except re-raising what it caught
status_except_reraise(e) == e

\* the `except Exception` of get_vector_store_status: the error is logged
\* and reported in the returned dictionary
status_except(e) == FALSE

\* get_vector_store_status(): fCount is the behaviour of
\* vector_store._collection.count()
get_vector_store_status(idx, vs, fStore, fCount) ==
    LET g == get_vector_store(vs, fStore)
    IN  IF g.exc \/ Fails(fCount)
        THEN [exc |-> status_except(TRUE), vs |-> g.vs,
              status |-> [status |-> "error"]]
        ELSE [exc |-> FALSE, vs |-> g.vs,
              status |-> [status |-> "ok",
                          document_count |-> BagCardinality(idx),
                          embedding_model |-> EMBEDDING_MODEL]]

\* health_check(): exists is os.path.isdir(DOCUMENTS_DIRECTORY)
health_check(idx, vs, fStore, fCount, exists) ==
    LET v == get_vector_store_status(idx, vs, fStore, fCount)
    IN  [exc |-> v.exc, vs |-> v.vs,
         response |-> IF v.exc THEN [status_code |-> 500]
                      ELSE [status_code |-> 200, status |-> "ok",
                            api_version |-> "VERSION",
                            vector_store |-> v.status,
                            documents_directory |-> [exists |-> exists]]]

(* ------------------------------------------------------------------ *)
(* rag_service.py                                                       *)
(* ------------------------------------------------------------------ *)

NoDocumentsMessage == "No relevant documents found to answer your question."

\* texts the generation provider can answer with
GenTexts == {"answer 1", "answer 2"}

\* get_llm under @retry(stop_after_attempt(2)): without an API key every
\* attempt raises ValueError; with one, ChatOpenAI(...) is constructed.
\* `calls`: runs of the body, `constructs`: ChatOpenAI(...) calls.
RECURSIVE get_llm_from(_, _, _, _, _)
get_llm_from(key, fLlm, attempt, calls, constructs) ==
    LET built == IF key THEN constructs + 1 ELSE constructs
    IN  IF key /\ ~Fails(fLlm)
        THEN [exc |-> FALSE, fLlm |-> After(fLlm), calls |-> calls + 1,
              constructs |-> built]
        ELSE IF attempt >= LlmAttempts
        THEN [exc |-> TRUE, fLlm |-> IF key THEN After(fLlm) ELSE fLlm,
              calls |-> calls + 1, constructs |-> built]
        ELSE get_llm_from(key, IF key THEN After(fLlm) ELSE fLlm,
                          attempt + 1, calls + 1, built)

get_llm(key, fLlm) == get_llm_from(key, fLlm, 1, 0, 0)

\* format_documents(docs): per chunk its 1-based label, the citation
\* "{document}{ (Page N)}" (page_info only for a truthy page) and its text
format_documents(docs) ==
    [i \in 1..Len(docs) |->
        [label   |-> i,
         source  |-> IF Truthy(docs[i].metadata.page)
                     THEN <<docs[i].metadata.document, " (Page ",
                            docs[i].metadata.page, ")">>
                     ELSE <<docs[i].metadata.document>>,
         content |-> docs[i].text]]

\* Sources built in the reverse of the retrieval order
Sources_reversed(docs) ==
    [i \in 1..Len(docs) |->
        [document |-> docs[Len(docs) + 1 - i].metadata.document,
         page     |-> docs[Len(docs) + 1 - i].metadata.page,
         text     |-> docs[Len(docs) + 1 - i].text]]

\* the `sources` list built from the retrieved docs
Sources(docs) ==
    [i \in 1..Len(docs) |->
        [document |-> docs[i].metadata.document,
         page     |-> docs[i].metadata.page,
         text     |-> docs[i].text]]

\* no_docs with the early return lost: generation runs on no context
no_docs_never(docs) == FALSE

\* `if not docs` of query_documents: the retrieval returned nothing
no_docs(docs) == docs = <<>>

\* answer_except swallowing what it caught: the call returns normally
answer_except_swallow(e) == FALSE

\* the `except Exception` of query_documents: the error e is logged and
\* raised again
answer_except(e) == e

\* the counters of one query_documents call
NoCounts == [retrievals |-> 0, opens |-> 0, llm_calls |-> 0,
             llm_constructs |-> 0, invokes |-> 0]

\* query_documents under @retry(stop_after_attempt(2)), from attempt
\* `attempt` on: every outcome of the call.  f holds the faults of the
\* providers, c the counters so far, gen the text the generation provider
\* answers with when it answers.  In an outcome, `counts` are the counters
\* of the whole call and `before` those at the start of its last attempt.
RECURSIVE query_documents_from(_, _, _, _, _, _, _, _, _, _)
query_documents_from(query, top_k, user_id, idx, vs, key, f, gen, attempt, c) ==
    UNION {
      LET c1 == [c EXCEPT !.retrievals = @ + 1, !.opens = @ + q.opens]
      IN  IF no_docs(q.docs)
          THEN {[exc |-> FALSE, answer |-> NoDocumentsMessage,
                 sources |-> <<>>, docs |-> q.docs, context |-> <<>>,
                 generated |-> None, vs |-> q.vs, attempts |-> attempt,
                 counts |-> c1, before |-> c]}
          ELSE
          LET l  == get_llm(key, f.llm)
              c2 == [c1 EXCEPT !.llm_calls = @ + l.calls,
                               !.llm_constructs = @ + l.constructs]
              failed_gen == ~l.exc /\ Fails(f.gen)
              c3 == IF l.exc THEN c2 ELSE [c2 EXCEPT !.invokes = @ + 1]
          IN  IF l.exc \/ failed_gen
              THEN IF attempt >= AnswerAttempts \/ ~answer_except(TRUE)
                   THEN {[exc |-> answer_except(TRUE), answer |-> None,
                          sources |-> <<>>,
                          docs |-> q.docs, context |-> <<>>,
                          generated |-> None, vs |-> q.vs,
                          attempts |-> attempt, counts |-> c3,
                          before |-> c]}
                   ELSE query_documents_from(query, top_k, user_id, idx,
                            q.vs, key,
                            [store |-> q.fStore, search |-> q.fSearch,
                             llm |-> l.fLlm,
                             gen |-> IF l.exc THEN f.gen ELSE After(f.gen)],
                            gen, attempt + 1, c3)
              ELSE {[exc |-> FALSE, answer |-> gen,
                     sources |-> Sources(q.docs), docs |-> q.docs,
                     context |-> format_documents(q.docs),
                     generated |-> gen, vs |-> q.vs, attempts |-> attempt,
                     counts |-> c3, before |-> c]}
      : q \in query_vectorstore(query, top_k, user_id, idx, vs, f.store,
                                f.search) }

\* query_documents(query, top_k, user_id)
query_documents(query, top_k, user_id, idx, vs, key, f, gen) ==
    query_documents_from(query, top_k, user_id, idx, vs, key, f, gen, 1,
                         NoCounts)

\* the query endpoint, given the outcome r of its query_documents call:
\* the answer and the formatted sources, or HTTP 500 for any exception
query_endpoint(r) ==
    IF r.exc
    THEN [status_code |-> 500, answer |-> None, sources |-> <<>>]
    ELSE [status_code |-> 200, answer |-> r.answer,
          sources |-> [i \in 1..Len(r.sources) |->
                          [page     |-> r.sources[i].page,
                           document |-> r.sources[i].document,
                           text     |-> r.sources[i].text]]]

(* ------------------------------------------------------------------ *)
(* The state machine                                                    *)
(* ------------------------------------------------------------------ *)

VARIABLES
    index,           \* the persisted Chroma collection: a bag of entries
    vector_store,    \* the module global _vector_store
    OPENAI_API_KEY,  \* settings.OPENAI_API_KEY is set
    last,            \* the call whose outcome its caller holds, or idle
    files,           \* ids of the documents stored in DOCUMENTS_DIRECTORY
    tasks,           \* ids of the uploads whose background ingestion is due
    threads,         \* position and locals of the calls running concurrently
    scraper          \* the WebScraper object of the scrape in progress

vars ==
    <<index, vector_store, OPENAI_API_KEY, last, files, tasks, threads,
      scraper>>

\* no call is running concurrently
NoThreads == <<>>

\* no scrape is in progress
NoScraper == [pc |-> "none"]

Idle == [op |-> "idle"]

\* query strings: a blank one, and one that ranks the indexed texts
Queries == { <<" ">>, <<"a">> }

\* values of a user_id argument (Optional[str])
UserArgs == Users \cup {None, ""}

\* values of a document_id argument of delete
DocArgs == DocIds \cup {""}

\* behaviours of a provider the call stops calling once it has answered
\* (opening the store, add_documents, the collection's delete, the chat
\* model): what follows its first answer is never seen
Outages == {f \in FaultSet : f.ok = 0}

\* opening the store is attempted only while the global is still None
StoreFaults == IF vector_store = None THEN Outages ELSE {NoFault}

\* behaviours of similarity_search: a failed search ends the retrieval of
\* the call (the call returns without retrying), so it matters only
\* whether the first search fails and whether a second one does
SearchFaults == {NoFault, Down, Late}

\* a provider that a call does not reach has no behaviour to choose
FaultsIf(reached, faults) == IF reached THEN faults ELSE {NoFault}

\* a blank query returns before the store is opened
Retrieves(query) == ~IsBlank(query)

\* the chat model is constructed and invoked only after a retrieval, and
\* only when settings.OPENAI_API_KEY is set
Generates(query) == Retrieves(query) /\ OPENAI_API_KEY

\* the first retrieval of a query_documents call returns some chunk: a call
\* whose first retrieval is empty returns before get_llm
RetrievesSome(query, top_k, user_id, fStore, fSearch) ==
    \E q \in query_vectorstore(query, top_k, user_id, index, vector_store,
                                fStore, fSearch) : q.docs # <<>>

\* the chat model of a query_documents call can be reached: the key is set
\* and the first retrieval returned some chunk
Invokes(query, top_k, user_id, fStore, fSearch) ==
    Generates(query) /\ RetrievesSome(query, top_k, user_id, fStore, fSearch)

\* a generation that never succeeds has no text to choose
TextsIf(reached) ==
    IF reached THEN GenTexts ELSE {CHOOSE g \in GenTexts : TRUE}

\* process_document reaches the store only with chunks to add
Ingests(file, doc) ==
    has_chunks(Extract(file, doc.document_id, doc.filename,
                       doc.user_id).text_chunks)

\* chunk lists ingestion can build
ChunkLists ==
    { Extract(file, doc.document_id, doc.filename, doc.user_id).text_chunks :
        file \in FileContents, doc \in Documents }

Init ==
    /\ index = EmptyBag
    /\ vector_store = None
    /\ OPENAI_API_KEY \in BOOLEAN
    /\ last = Idle
    /\ files = {}
    /\ tasks = {}
    /\ threads = NoThreads
    /\ scraper = NoScraper

\* a background task or the scraper runs process_document
ProcessDocument ==
    /\ last = Idle
    /\ \E file \in FileContents, doc \in Documents :
       \E fStore \in FaultsIf(Ingests(file, doc), StoreFaults),
          fAdd \in FaultsIf(Ingests(file, doc), Outages) :
        LET r == process_document(file, doc.document_id, doc.filename,
                                  doc.user_id, index, vector_store,
                                  fStore, fAdd)
        IN  /\ BagCardinality(r.index) <= MaxEntries
            /\ index' = r.index
            /\ vector_store' = r.vs
            /\ last' = [op |-> "process_document",
                        document_id |-> doc.document_id,
                        user_id |-> doc.user_id, exc |-> r.exc,
                        text_chunks |-> r.text_chunks,
                        add_called |-> r.add_called, add_exc |-> r.add_exc]
            /\ UNCHANGED <<OPENAI_API_KEY, files, tasks, threads, scraper>>

\* a direct call of add_documents_to_vectorstore(chunks)
AddDocuments ==
    /\ last = Idle
    /\ \E chunks \in ChunkLists, fStore \in StoreFaults, fAdd \in Outages :
        LET r == add_documents_to_vectorstore(chunks, index, vector_store,
                                              fStore, fAdd)
        IN  /\ BagCardinality(r.index) <= MaxEntries
            /\ index' = r.index
            /\ vector_store' = r.vs
            /\ last' = [op |-> "add_documents_to_vectorstore",
                        chunks |-> chunks, exc |-> r.exc, opens |-> r.opens,
                        inserts |-> r.inserts, attempts |-> r.attempts]
            /\ UNCHANGED <<OPENAI_API_KEY, files, tasks, threads, scraper>>

\* a direct call of query_vectorstore(query, top_k, user_id)
QueryVectorstore ==
    /\ last = Idle
    /\ \E query \in Queries, top_k \in 1..MaxTopK, user_id \in UserArgs :
       \E fStore \in FaultsIf(Retrieves(query), StoreFaults),
          fSearch \in FaultsIf(Retrieves(query), SearchFaults) :
        \E r \in query_vectorstore(query, top_k, user_id, index,
                                   vector_store, fStore, fSearch) :
            /\ vector_store' = r.vs
            /\ last' = [op |-> "query_vectorstore", query |-> query,
                        top_k |-> top_k, user_id |-> user_id,
                        exc |-> r.exc, docs |-> r.docs, opens |-> r.opens,
                        searches |-> r.searches, attempts |-> r.attempts,
                        searched |-> r.searched]
            /\ UNCHANGED <<index, OPENAI_API_KEY, files, tasks,
                           threads, scraper>>

\* a direct call of delete_document_from_vectorstore(document_id)
DeleteFromVectorstore ==
    /\ last = Idle
    /\ \E d \in DocArgs, fStore \in StoreFaults, fDelete \in Outages :
        LET r == delete_document_from_vectorstore(d, index, vector_store,
                                                  fStore, fDelete)
        IN  /\ index' = r.index
            /\ vector_store' = r.vs
            /\ last' = [op |-> "delete_document_from_vectorstore",
                        document_id |-> d, exc |-> r.exc, ret |-> r.ret,
                        removed |-> r.removed, opens |-> r.opens,
                        attempts |-> r.attempts, failures |-> r.failures]
            /\ UNCHANGED <<OPENAI_API_KEY, files, tasks, threads, scraper>>

\* the query endpoint calls query_documents(query, top_k, user_id)
QueryDocuments ==
    /\ last = Idle
    /\ \E query \in Queries, top_k \in 1..MaxTopK, user_id \in UserArgs :
       \E fStore \in FaultsIf(Retrieves(query), StoreFaults),
          fSearch \in FaultsIf(Retrieves(query), SearchFaults) :
       \E fLlm \in FaultsIf(Invokes(query, top_k, user_id, fStore, fSearch),
                            Outages) :
       \E fGen \in FaultsIf(Invokes(query, top_k, user_id, fStore, fSearch)
                             /\ ~fLlm.forever, Outages) :
       \E gen \in TextsIf(Invokes(query, top_k, user_id, fStore, fSearch)
                           /\ ~fLlm.forever /\ ~fGen.forever) :
        \E r \in query_documents(query, top_k, user_id, index, vector_store,
                                 OPENAI_API_KEY,
                                 [store |-> fStore, search |-> fSearch,
                                  llm |-> fLlm, gen |-> fGen], gen) :
            /\ vector_store' = r.vs
            /\ last' = [op |-> "query_documents", query |-> query,
                        user_id |-> user_id,
                        exc |-> r.exc, answer |-> r.answer,
                        sources |-> r.sources, docs |-> r.docs,
                        generated |-> r.generated, counts |-> r.counts,
                        before |-> r.before, attempts |-> r.attempts,
                        context |-> r.context, response |-> query_endpoint(r)]
            /\ UNCHANGED <<index, OPENAI_API_KEY, files, tasks,
                           threads, scraper>>

\* the caller has taken the outcome of the call; the next call can start
Return ==
    /\ last # Idle
    /\ last' = Idle
    /\ UNCHANGED <<index, vector_store, OPENAI_API_KEY, files, tasks,
                   threads, scraper>>

\* the process restarts: the module is imported again with
\* _vector_store = None and the background tasks not yet run are lost;
\* the persisted collection and the stored files are kept
Restart ==
    /\ last = Idle
    /\ vector_store # None \/ tasks # {}
    /\ vector_store' = None
    /\ tasks' = {}
    /\ UNCHANGED <<index, OPENAI_API_KEY, last, files, threads, scraper>>

Next ==
    \/ ProcessDocument
    \/ AddDocuments
    \/ QueryVectorstore
    \/ DeleteFromVectorstore
    \/ QueryDocuments
    \/ Return
    \/ Restart

Spec == Init /\ [][Next]_vars

(* ------------------------------------------------------------------ *)
(* The document store: uploads, their background ingestion, listing,    *)
(* deletion and the health endpoint.  In Spec the content behind a path *)
(* is an input of ProcessDocument; here the stored files are followed.  *)
(* ------------------------------------------------------------------ *)

\* str(uuid.uuid4()) is an id nothing in the system carries yet
Fresh(document_id) ==
    /\ document_id \notin files \cup tasks
    /\ Matching(index, document_id) = EmptyBag

DocInit ==
    /\ index = EmptyBag
    /\ vector_store = None
    /\ OPENAI_API_KEY \in BOOLEAN
    /\ last = Idle
    /\ files = {}
    /\ tasks = {}
    /\ threads = NoThreads
    /\ scraper = NoScraper

\* the upload endpoint: the file is saved and its ingestion is scheduled
Upload ==
    /\ last = Idle
    /\ \E doc \in Documents, fWrite \in {NoFault, Down} :
        LET r == upload_document(doc, ContentTypeOf(doc.filename), fWrite)
        IN  /\ Fresh(doc.document_id)
            /\ files' = IF r.stored THEN files \cup {doc.document_id}
                        ELSE files
            /\ tasks' = IF r.stored THEN tasks \cup {doc.document_id}
                        ELSE tasks
            /\ last' = [op |-> "upload_document",
                        document_id |-> doc.document_id,
                        content_type |-> ContentTypeOf(doc.filename),
                        status_code |-> r.status_code]
            /\ UNCHANGED <<index, vector_store, OPENAI_API_KEY,
                           threads, scraper>>

\* the background task of an upload runs process_document on the stored
\* path: the file can be read only while it is stored
IngestUploaded ==
    /\ last = Idle
    /\ \E doc \in Documents, file \in FileContents,
          fStore \in StoreFaults, fAdd \in Outages :
        LET r == process_document(file, doc.document_id, doc.filename,
                                  doc.user_id, index, vector_store,
                                  fStore, fAdd)
        IN  /\ doc.document_id \in tasks
            /\ file.readable => doc.document_id \in files
            /\ BagCardinality(r.index) <= MaxEntries
            /\ index' = r.index
            /\ vector_store' = r.vs
            /\ tasks' = tasks \ {doc.document_id}
            /\ last' = [op |-> "process_document",
                        document_id |-> doc.document_id,
                        user_id |-> doc.user_id, exc |-> r.exc,
                        readable |-> file.readable, units |-> file.units,
                        text_chunks |-> r.text_chunks,
                        add_called |-> r.add_called, add_exc |-> r.add_exc]
            /\ UNCHANGED <<OPENAI_API_KEY, files, threads, scraper>>

\* the delete endpoint calls delete_document(document_id, user_id)
DeleteDocument ==
    /\ last = Idle
    /\ \E d \in DocArgs, user_id \in Users, fFs \in {NoFault, Down} :
       \E fStore \in FaultsIf(d \in files /\ ~Fails(fFs), StoreFaults),
          fDelete \in FaultsIf(d \in files /\ ~Fails(fFs), Outages) :
        LET r == delete_document(d, user_id, files, index, vector_store,
                                 fFs, fStore, fDelete)
        IN  /\ files' = r.files
            /\ index' = r.index
            /\ vector_store' = r.vs
            /\ last' = [op |-> "delete_document", document_id |-> d,
                        user_id |-> user_id, ret |-> r.ret,
                        removed_file |-> r.removed_file,
                        delete_exc |-> r.delete_exc, removed |-> r.removed]
            /\ UNCHANGED <<OPENAI_API_KEY, tasks, threads, scraper>>

\* the documents endpoint calls list_documents(user_id)
ListDocuments ==
    /\ last = Idle
    /\ \E user_id \in Users :
          last' = [op |-> "list_documents", user_id |-> user_id,
                   documents |-> list_documents(user_id, files)]
    /\ UNCHANGED <<index, vector_store, OPENAI_API_KEY, files, tasks,
                   threads, scraper>>

\* the health endpoint
HealthCheck ==
    /\ last = Idle
    /\ \E fStore \in StoreFaults, fCount \in {NoFault, Down},
          exists \in {e \in BOOLEAN : files # {} => e} :
        LET r == health_check(index, vector_store, fStore, fCount, exists)
        IN  /\ vector_store' = r.vs
            /\ last' = [op |-> "health_check", exc |-> r.exc,
                        response |-> r.response]
            /\ UNCHANGED <<index, OPENAI_API_KEY, files, tasks,
                           threads, scraper>>

DocNext ==
    \/ Upload
    \/ IngestUploaded
    \/ DeleteDocument
    \/ ListDocuments
    \/ QueryVectorstore
    \/ HealthCheck
    \/ Return
    \/ Restart

DocSpec == DocInit /\ [][DocNext]_vars

(* ------------------------------------------------------------------ *)
(* Concurrent calls: a background ingestion and a delete request        *)
(* ------------------------------------------------------------------ *)

\* process_document runs as a background task on a worker thread while the
\* delete endpoint runs delete_document on the event loop
Threads == {"ingest", "delete"}

\* the uploads whose ingestion can race with a delete
Uploaded == {doc \in Documents : ContentTypeOf(doc.filename) \in AcceptedTypes}

\* the object the call of Chroma(...) by thread t returns, named by t: two
\* calls return two objects
Instance(t) == t

\* the locals of a call that has not started
Started(pc, document_id) ==
    [pc |-> pc, document_id |-> document_id, text_chunks |-> <<>>,
     attempt |-> 1, built |-> FALSE, got |-> None, matching |-> EmptyBag,
     ret |-> None]

\* an upload has stored the file and returned; its background task and a
\* delete request for the same id are about to run
RaceInit ==
    /\ index = EmptyBag
    /\ vector_store = None
    /\ OPENAI_API_KEY \in BOOLEAN
    /\ last = Idle
    /\ tasks = {}
    /\ scraper = NoScraper
    /\ \E doc \in Uploaded :
          /\ files = {doc.document_id}
          /\ threads = [t \in Threads |->
                           Started(IF t = "ingest" THEN "extract" ELSE "remove",
                                   doc.document_id)]

\* thread t moves to pc with the locals in `changes` rewritten
Goto(t, pc, changes) ==
    threads' = [threads EXCEPT ![t] =
                   [f \in DOMAIN threads[t] |->
                       IF f = "pc" THEN pc
                       ELSE IF f \in DOMAIN changes THEN changes[f]
                       ELSE threads[t][f]]]

\* process_document: process_pdf / process_docx reads the stored file and
\* chunks its text; a file that is gone gives no chunk
ExtractStep ==
    /\ threads["ingest"].pc = "extract"
    /\ \E file \in FileContents :
        LET doc == DocumentOf(threads["ingest"].document_id)
            x   == Extract(file, doc.document_id, doc.filename, doc.user_id)
        IN  /\ file.readable <=> doc.document_id \in files
            /\ Len(x.text_chunks) <= MaxEntries
            /\ Goto("ingest",
                    IF has_chunks(x.text_chunks) THEN "check" ELSE "done",
                    [text_chunks |-> x.text_chunks])
    /\ UNCHANGED <<index, vector_store, OPENAI_API_KEY, last, files, tasks,
                   scraper>>

\* delete_document: os.listdir and os.remove of the file named
\* document_id_*; without such a file it returns False
RemoveStep ==
    /\ threads["delete"].pc = "remove"
    /\ LET d == threads["delete"].document_id
       IN  IF d \in files
           THEN /\ files' = files \ {d}
                /\ Goto("delete", "check", <<>>)
           ELSE /\ files' = files
                /\ Goto("delete", "done", [ret |-> "False"])
    /\ UNCHANGED <<index, vector_store, OPENAI_API_KEY, last, tasks, scraper>>

\* get_vector_store: the test `if _vector_store is None`
CheckStep(t) ==
    /\ threads[t].pc = "check"
    /\ Goto(t, IF vector_store = None THEN "construct" ELSE "return", <<>>)
    /\ UNCHANGED <<index, vector_store, OPENAI_API_KEY, last, files, tasks,
                   scraper>>

\* get_vector_store: _vector_store = Chroma(...).  A failed construction
\* leaves the global as it is and raises; the retry runs the function
\* again, the last failure surfaces to the caller, which logs it
\* (process_document) or answers True nonetheless (delete_document)
ConstructStep(t) ==
    /\ threads[t].pc = "construct"
    /\ \E ok \in BOOLEAN :
          IF ok
          THEN /\ vector_store' = Instance(t)
               /\ Goto(t, "return", [built |-> TRUE])
          ELSE /\ vector_store' = vector_store
               /\ IF threads[t].attempt < StoreAttempts
                  THEN Goto(t, "check", [attempt |-> threads[t].attempt + 1])
                  ELSE Goto(t, "done",
                            [ret |-> IF t = "delete" THEN "True" ELSE None])
    /\ UNCHANGED <<index, OPENAI_API_KEY, last, files, tasks, scraper>>

\* get_vector_store: return _vector_store
ReturnStep(t) ==
    /\ threads[t].pc = "return"
    /\ Goto(t, IF t = "ingest" THEN "add" ELSE "get", [got |-> vector_store])
    /\ UNCHANGED <<index, vector_store, OPENAI_API_KEY, last, files, tasks,
                   scraper>>

\* add_documents_to_vectorstore: vector_store.add_documents(documents)
AddStep ==
    /\ threads["ingest"].pc = "add"
    /\ index' = add_documents(index, threads["ingest"].text_chunks)
    /\ Goto("ingest", "done", <<>>)
    /\ UNCHANGED <<vector_store, OPENAI_API_KEY, last, files, tasks, scraper>>

\* delete_document_from_vectorstore: _collection.get(where=...)
GetStep ==
    /\ threads["delete"].pc = "get"
    /\ Goto("delete", "delete",
            [matching |-> Matching(index, threads["delete"].document_id)])
    /\ UNCHANGED <<index, vector_store, OPENAI_API_KEY, last, files, tasks,
                   scraper>>

\* delete_document_from_vectorstore: _collection.delete(ids=...) of the ids
\* read before; delete_document then returns True
DeleteStep ==
    /\ threads["delete"].pc = "delete"
    /\ index' = index (-) threads["delete"].matching
    /\ Goto("delete", "done", [ret |-> "True"])
    /\ UNCHANGED <<vector_store, OPENAI_API_KEY, last, files, tasks, scraper>>

RaceNext ==
    \/ ExtractStep
    \/ RemoveStep
    \/ \E t \in Threads : CheckStep(t)
    \/ \E t \in Threads : ConstructStep(t)
    \/ \E t \in Threads : ReturnStep(t)
    \/ AddStep
    \/ GetStep
    \/ DeleteStep

RaceSpec == RaceInit /\ [][RaceNext]_vars

(* ------------------------------------------------------------------ *)
(* scraping_service.py                                                  *)
(* ------------------------------------------------------------------ *)

\* the pages of the scraped site (URLs of base_domain); page 1 is base_url
MaxSitePages == 3
SitePages == 1..MaxSitePages

\* the largest max_pages and max_depth of a request (WebScrapeRequest
\* accepts 1..100 and 1..5)
MaxPagesArg == 3
MaxDepthArg == 2

\* the most links _extract_links returns for one page
MaxLinks == 2

\* seconds that can pass between two readings of datetime.utcnow()
MaxElapsed == 1

\* _extract_links: the same-domain links of a page, each listed once
LinkLists ==
    {links \in UNION {[1..n -> SitePages] : n \in 0..MaxLinks} :
        \A i \in 1..Len(links), j \in 1..Len(links) :
            links[i] = links[j] => i = j}

\* the test that never finds a URL visited
already_visited_never(url, visited_urls) == FALSE

\* `current_url in self.visited_urls`
already_visited(url, visited_urls) == url \in visited_urls

\* pages_queue.pop(0) leaving the entry in the queue
pop_rest_keep(pages_queue) == pages_queue

\* the queue after pages_queue.pop(0)
pop_rest(pages_queue) == Tail(pages_queue)

\* the links of a page appended to the queue, those already visited left out
RECURSIVE enqueue(_, _, _, _)
enqueue(pages_queue, links, depth, visited_urls) ==
    IF links = <<>> THEN pages_queue
    ELSE enqueue(IF Head(links) \notin visited_urls
                 THEN Append(pages_queue, [url |-> Head(links), depth |-> depth])
                 ELSE pages_queue,
                 Tail(links), depth, visited_urls)

\* WebScraper.__init__ followed by the first statement of start_scraping,
\* pages_queue.append({"url": base_url, "depth": 0})
WebScraper(base_url, max_pages, max_depth) ==
    [pc |-> "loop", base_url |-> base_url, max_pages |-> max_pages,
     max_depth |-> max_depth, visited_urls |-> {}, pages_scraped |-> 0,
     pages_queue |-> << [url |-> base_url, depth |-> 0] >>, content |-> <<>>,
     fetched |-> <<>>,
     document_info |-> [error |-> TRUE], handed |-> [called |-> FALSE]]

\* the condition of the while loop of start_scraping
loop_condition(self) ==
    self.pages_queue # <<>> /\ self.pages_scraped < self.max_pages

\* one iteration of the while loop: ok and links are what _scrape_page
\* returns for the URL (None, [] when the request fails).  `fetched` lists
\* the requests made, with the depth of the queue entry.
scrape_iteration(self, ok, links) ==
    LET page_info   == Head(self.pages_queue)
        current_url == page_info.url
        rest        == pop_rest(self.pages_queue)
        visited     == self.visited_urls \cup {current_url}
        request     == Append(self.fetched, page_info)
    IN  IF already_visited(current_url, self.visited_urls)
        THEN [self EXCEPT !.pages_queue = rest]
        ELSE IF ~ok
        THEN [self EXCEPT !.pages_queue = rest, !.visited_urls = visited,
                          !.fetched = request]
        ELSE [self EXCEPT
                 !.visited_urls = visited,
                 !.fetched = request,
                 !.pages_scraped = self.pages_scraped + 1,
                 !.content = Append(self.content, [url |-> current_url]),
                 !.pages_queue =
                     IF page_info.depth < self.max_depth
                     THEN enqueue(rest, links, page_info.depth + 1, visited)
                     ELSE rest]

\* the timestamp of strftime("%Y%m%d%H%M%S"), in seconds since the scrape
\* was saved
ScrapedPath(document_id, timestamp) ==
    [document_id |-> document_id, timestamp |-> timestamp]

\* the document a scrape is stored as: a text file of the requesting user
ScrapedDocument == CHOOSE doc \in Documents : endswith(doc.filename, ".txt")

\* save_to_document(user_id): nothing is saved without content or when
\* writing fails; otherwise the file is moved to final_path, named with the
\* time of the call
save_to_document(self, doc, fWrite) ==
    IF self.content = <<>> \/ Fails(fWrite)
    THEN [error |-> TRUE]
    ELSE [error |-> FALSE, id |-> doc.document_id, filename |-> doc.filename,
          final_path |-> ScrapedPath(doc.document_id, 0)]

\* what is at file_path when process_document opens it: the scraped text
\* at the path save_to_document wrote, no file anywhere else
FileAt(file_path, document_info, text) ==
    IF file_path = document_info.final_path
    THEN [readable |-> TRUE, units |-> << [ok |-> TRUE, text |-> text] >>]
    ELSE [readable |-> FALSE, units |-> <<>>]

\* a crawl is started by scrape_website(url, user_id, max_pages, max_depth)
ScrapeInit ==
    /\ index = EmptyBag
    /\ vector_store = None
    /\ OPENAI_API_KEY \in BOOLEAN
    /\ last = Idle
    /\ files = {}
    /\ tasks = {}
    /\ threads = NoThreads
    /\ \E max_pages \in 1..MaxPagesArg, max_depth \in 1..MaxDepthArg :
          scraper = WebScraper(1, max_pages, max_depth)

\* the body of the while loop runs once
ScrapeIteration ==
    /\ scraper.pc = "loop"
    /\ loop_condition(scraper)
    /\ \E ok \in BOOLEAN :
       \E links \in IF ok THEN LinkLists ELSE {<<>>} :
          scraper' = scrape_iteration(scraper, ok, links)
    /\ UNCHANGED <<index, vector_store, OPENAI_API_KEY, last, files, tasks,
                   threads>>

\* the while loop ends and start_scraping returns
ScrapeReturn ==
    /\ scraper.pc = "loop"
    /\ ~loop_condition(scraper)
    /\ scraper' = [scraper EXCEPT !.pc = "save"]
    /\ UNCHANGED <<index, vector_store, OPENAI_API_KEY, last, files, tasks,
                   threads>>

\* scrape_website calls scraper.save_to_document(user_id)
SaveToDocument ==
    /\ scraper.pc = "save"
    /\ \E fWrite \in {NoFault, Down} :
        LET info == save_to_document(scraper, ScrapedDocument, fWrite)
        IN  /\ scraper' = [scraper EXCEPT
                              !.document_info = info,
                              !.pc = IF info.error THEN "done" ELSE "process"]
            /\ files' = IF info.error THEN files
                        ELSE files \cup {info.id}
    /\ UNCHANGED <<index, vector_store, OPENAI_API_KEY, last, tasks, threads>>

\* scrape_website rebuilds the file name from datetime.utcnow() and calls
\* process_document(file_path, document_info['id'],
\* document_info['filename'], user_id)
ProcessScraped ==
    /\ scraper.pc = "process"
    /\ \E elapsed \in 0..MaxElapsed, text \in {t \in Texts : ~IsBlank(t)} :
        LET info      == scraper.document_info
            file_path == ScrapedPath(info.id, elapsed)
            file      == FileAt(file_path, info, text)
        IN  \E fStore \in FaultsIf(file.readable, StoreFaults),
               fAdd \in FaultsIf(file.readable, Outages) :
            LET r == process_document(file, info.id, info.filename,
                                      ScrapedDocument.user_id, index,
                                      vector_store, fStore, fAdd)
            IN  /\ BagCardinality(r.index) <= MaxEntries
                /\ index' = r.index
                /\ vector_store' = r.vs
                /\ scraper' = [scraper EXCEPT
                       !.pc = "done",
                       !.handed = [called |-> TRUE, file_path |-> file_path,
                                   document_id |-> info.id,
                                   filename |-> info.filename,
                                   text_chunks |-> r.text_chunks,
                                   add_called |-> r.add_called,
                                   add_exc |-> r.add_exc]]
    /\ UNCHANGED <<OPENAI_API_KEY, last, files, tasks, threads>>

ScrapeNext ==
    \/ ScrapeIteration
    \/ ScrapeReturn
    \/ SaveToDocument
    \/ ProcessScraped

ScrapeSpec == ScrapeInit /\ [][ScrapeNext]_vars

\* start_scraping is a sequential loop: an iteration that can run does
\* run, and the loop is left once its condition is false
ScrapeFairSpec ==
    /\ ScrapeInit /\ [][ScrapeNext]_vars
    /\ WF_vars(ScrapeIteration) /\ WF_vars(ScrapeReturn)

(* ------------------------------------------------------------------ *)
(* Properties                                                           *)
(* ------------------------------------------------------------------ *)

\* the call that returned last is a query (direct, or through
\* query_documents) and `last.docs` is what its retrieval returned
IsQuery == last.op \in {"query_vectorstore", "query_documents"}

\* C1: owner isolation.  A query given a non-empty user_id returns only
\* entries whose metadata user_id is that user_id, and every chunk an
\* ingestion builds carries the user_id the ingestion was called with.
C1_OwnerIsolation ==
    /\ (IsQuery /\ Truthy(last.user_id))
          => \A i \in 1..Len(last.docs) :
                 last.docs[i].metadata.user_id = last.user_id
    /\ last.op = "process_document"
          => \A i \in 1..Len(last.text_chunks) :
                 last.text_chunks[i].metadata.user_id = last.user_id

\* C1 witness: a scoped query returned an entry while the index also holds
\* an entry of another user
C1_Witness ==
    /\ last.op = "query_vectorstore"
    /\ Truthy(last.user_id)
    /\ Len(last.docs) >= 1
    /\ \E e \in BagToSet(index) : e.metadata.user_id # last.user_id

\* the step is a call of delete_document_from_vectorstore that returned
\* without error
DeleteReturned ==
    last'.op = "delete_document_from_vectorstore" /\ ~last'.exc

\* C2: a delete that returns without error removes exactly the entries of
\* the given document_id: none of them is left (a query restricted to the
\* document finds nothing) and every other entry is kept, copy for copy.
C2_DeleteRemovesExactly ==
    [][ DeleteReturned =>
          /\ Matching(index', last'.document_id) = EmptyBag
          /\ \A e \in BagToSet(index) \cup BagToSet(index') :
                 CopiesIn(e, index') =
                     IF e.metadata.document_id = last'.document_id THEN 0
                     ELSE CopiesIn(e, index) ]_vars

\* C2 witness: a delete removed a document's entries and left another
\* document's entries in the index
C2_Witness ==
    /\ last.op = "delete_document_from_vectorstore"
    /\ ~last.exc
    /\ last.removed >= 1
    /\ index # EmptyBag

\* the step is a call of delete_document_from_vectorstore
DeleteCalled == last'.op = "delete_document_from_vectorstore"

NoChunksRetrieved == last.op = "query_documents" /\ last.docs = <<>>

\* C4 as stated: when retrieval returns no chunks, query_documents returns
\* the fixed message with no sources and the generation provider is never
\* constructed or invoked during that call.
C4_Original ==
    NoChunksRetrieved =>
        /\ ~last.exc
        /\ last.answer = NoDocumentsMessage
        /\ last.sources = <<>>
        /\ last.counts.llm_constructs = 0
        /\ last.counts.invokes = 0

\* C4 as amended: when the retrieval of an attempt returns no chunks,
\* query_documents returns the fixed message with no sources and the
\* generation provider is not constructed or invoked in that attempt; when
\* that attempt is the first of the call, it is never constructed or
\* invoked during the call.
C4_NoDocuments ==
    NoChunksRetrieved =>
        /\ ~last.exc
        /\ last.answer = NoDocumentsMessage
        /\ last.sources = <<>>
        /\ last.counts.llm_constructs = last.before.llm_constructs
        /\ last.counts.invokes = last.before.invokes
        /\ last.attempts = 1
              => last.counts.llm_constructs = 0 /\ last.counts.invokes = 0

\* C4 witness: a non-blank query over a non-empty index retrieved nothing
\* (no entry of the owner, or a swallowed index failure)
C4_Witness ==
    /\ NoChunksRetrieved
    /\ ~IsBlank(last.query)
    /\ index # EmptyBag
    /\ last.attempts = 1

\* the call that returned last is query_documents and it returned an
\* answer generated from retrieved chunks
Answered == last.op = "query_documents" /\ ~last.exc /\ last.docs # <<>>

\* C5: on a successful answer, the answer is the text the generation
\* provider returned, and sources lists the retrieved chunks one for one,
\* in retrieval order (nearest first), each with the document name, the
\* page and the text of an entry of the index.
C5_AnswerAndSources ==
    Answered =>
        /\ last.answer = last.generated
        /\ last.generated \in GenTexts
        /\ Len(last.sources) = Len(last.docs)
        /\ \A i \in 1..Len(last.docs) :
              /\ last.docs[i] \in BagToSet(index)
              /\ last.sources[i].document = last.docs[i].metadata.document
              /\ last.sources[i].page = last.docs[i].metadata.page
              /\ last.sources[i].text = last.docs[i].text
        /\ \A i \in 1..(Len(last.docs) - 1) :
              Dist(last.query, last.docs[i].text)
                  <= Dist(last.query, last.docs[i + 1].text)

\* C5 witness: an answer came with two different sources
C5_Witness ==
    /\ Answered
    /\ Len(last.sources) = 2
    /\ last.sources[1] # last.sources[2]

\* C6: process_document never raises; when the add did not succeed (not
\* attempted, or failed after its retries) the index is unchanged,
\* otherwise it grew by exactly the chunks built.
C6_IngestionNeverRaises ==
    [][ last'.op = "process_document" =>
          /\ ~last'.exc
          /\ IF last'.add_called /\ ~last'.add_exc
             THEN index' = index (+) ChunkBag(last'.text_chunks)
             ELSE index' = index ]_vars

\* C6 witness: an ingestion whose add failed after its retries returned
\* normally
C6_Witness ==
    /\ last.op = "process_document"
    /\ last.add_called
    /\ last.add_exc
    /\ ~last.exc

\* the step is a successful add_documents_to_vectorstore of n >= 1 chunks
AddSucceeded ==
    /\ last'.op = "add_documents_to_vectorstore"
    /\ ~last'.exc
    /\ Len(last'.chunks) >= 1

\* C7: a successful add of n >= 1 chunks grows the index by exactly n
\* entries, one more copy per chunk given, whether or not equal entries
\* were already there.
C7_AddGrowsByN ==
    [][ AddSucceeded =>
          /\ BagCardinality(index')
                 = BagCardinality(index) + Len(last'.chunks)
          /\ \A e \in BagToSet(index') :
                 CopiesIn(e, index')
                     = CopiesIn(e, index) + Occurrences(last'.chunks, e) ]_vars

\* C7 witness: after an add, a chunk it was given is in the index twice
C7_Witness ==
    /\ last.op = "add_documents_to_vectorstore"
    /\ ~last.exc
    /\ \E i \in 1..Len(last.chunks) : CopiesIn(last.chunks[i], index) >= 2

\* the entries that pass the owner filter of the query that returned last
MatchingOwner ==
    LET P(e) == Truthy(last.user_id) => e.metadata.user_id = last.user_id
    IN  FilterBag(index, {e \in BagToSet(index) : P(e)})

\* C8: a query_vectorstore call whose search ran returns exactly
\* min(top_k, number of entries passing the owner filter) entries.
C8_TopK ==
    (last.op = "query_vectorstore" /\ last.searched) =>
        Len(last.docs) = Min(last.top_k, BagCardinality(MatchingOwner))

\* C8 witness: fewer entries than top_k matched, and all were returned
C8_Witness ==
    /\ last.op = "query_vectorstore"
    /\ last.searched
    /\ Len(last.docs) >= 1
    /\ Len(last.docs) < last.top_k

\* C9: query_vectorstore raises nothing; when the store could not be opened
\* or the search failed it returns the empty list.
C9_QueryNeverRaises ==
    last.op = "query_vectorstore" =>
        /\ ~last.exc
        /\ ~last.searched => last.docs = <<>>

\* C9 witness: a non-blank query over a non-empty index returned the empty
\* list after the store failed to open on each of its attempts
C9_Witness ==
    /\ last.op = "query_vectorstore"
    /\ ~IsBlank(last.query)
    /\ index # EmptyBag
    /\ last.opens = StoreAttempts
    /\ ~last.searched
    /\ last.docs = <<>>
    /\ ~last.exc

\* C10 as stated: within one add_documents_to_vectorstore call neither the
\* store opening nor the insertion of the chunks is attempted more than 3
\* times.
C10_Original ==
    last.op = "add_documents_to_vectorstore" =>
        /\ last.opens <= AddAttempts
        /\ last.inserts <= AddAttempts

\* C11 as stated: within one query_documents call, retrieval, the
\* construction of the language model and generation are each attempted at
\* most 2 times, and a call that ends in an error is answered by the query
\* endpoint with one failure response.
C11_Original ==
    last.op = "query_documents" =>
        /\ last.counts.retrievals <= AnswerAttempts
        /\ last.counts.llm_constructs <= AnswerAttempts
        /\ last.counts.invokes <= AnswerAttempts
        /\ last.exc => last.response.status_code = 500

\* the call that returned last is query_documents, made without an API key,
\* and it reached get_llm (its retrieval was not empty)
FatalGeneration ==
    /\ last.op = "query_documents"
    /\ ~OPENAI_API_KEY
    /\ last.counts.llm_calls >= 1

\* C12 as stated: without an API key, a query_documents call with non-empty
\* retrieval runs get_llm exactly once, runs retrieval once, and raises.
C12_Original ==
    FatalGeneration =>
        /\ last.exc
        /\ last.counts.llm_calls = 1
        /\ last.counts.retrievals = 1

ChunksInSight ==
    BagToSet(index)
    \cup (IF last.op = "process_document"
          THEN {last.text_chunks[i] : i \in 1..Len(last.text_chunks)}
          ELSE {})

\* the page numbers of the modelled PDF files
PageNumbers == UNION {1..Len(file.units) : file \in FileContents}

\* C14: every chunk built by create_chunks_with_metadata, and so every
\* entry of the index, has a string page: the sentinel "0" exactly when its
\* unit has no page number (DOCX, text file), the decimal page number (from
\* 1) of its PDF page otherwise; its document_id, document, user_id and
\* source are those of the ingested document, never null.
C14_PageSentinel ==
    \A c \in ChunksInSight :
        /\ c.metadata.page \in {"0"} \cup {str(n) : n \in PageNumbers}
        /\ c.metadata.page = "0" <=> ~endswith(c.metadata.document, ".pdf")
        /\ \E doc \in Documents :
              /\ c.metadata.document_id = doc.document_id
              /\ c.metadata.document = doc.filename
              /\ c.metadata.user_id = doc.user_id
        /\ c.metadata.source =
              IF c.metadata.page = "0"
              THEN <<c.metadata.document>>
              ELSE <<c.metadata.document, " (page ", c.metadata.page, ")">>

\* C14 witness: the index holds a chunk of a unit without page number and
\* a chunk of the second page of a PDF
C14_Witness ==
    /\ \E c \in BagToSet(index) : c.metadata.page = "0"
    /\ \E c \in BagToSet(index) : c.metadata.page = "2"

(* ------------------------------------------------------------------ *)
(* The chunker by itself                                                *)
(* ------------------------------------------------------------------ *)

\* characters of the texts the chunker is run on: a letter and the two
\* whitespace characters the separators are made of
SplitAlphabet == {"a", " ", "\n"}

\* every text of at most MaxTextLen characters
SplitInputs == UNION {[1..n -> SplitAlphabet] : n \in 0..MaxTextLen}

\* a unit (page_num, text) is about to be chunked
ChunkInit ==
    /\ index = EmptyBag
    /\ vector_store = None
    /\ OPENAI_API_KEY = FALSE
    /\ files = {}
    /\ tasks = {}
    /\ last \in {[op |-> "unit", text |-> t] : t \in SplitInputs}
    /\ threads = NoThreads
    /\ scraper = NoScraper

\* create_chunks_with_metadata([(page_num, text)], ...) for a unit with a
\* page number and for one without
CreateChunks ==
    /\ last.op = "unit"
    /\ \E page_num \in {NoneValue, IntValue(1)}, doc \in Documents :
          last' = [op |-> "create_chunks_with_metadata",
                   text |-> last.text, page_num |-> page_num,
                   chunks |-> create_chunks_with_metadata(
                                  << <<page_num, last.text>> >>,
                                  doc.document_id, doc.filename, doc.user_id)]
    /\ UNCHANGED <<index, vector_store, OPENAI_API_KEY, files, tasks,
                   threads, scraper>>

ChunkNext == CreateChunks

ChunkSpec == ChunkInit /\ [][ChunkNext]_vars

\* C15: each chunk the chunker produces is non-empty, not blank, and has at
\* most CHUNK_SIZE characters, for every text, also when a run of
\* characters without separator is longer than CHUNK_SIZE and the splitter
\* falls back to splitting it into characters; a blank text gives no chunk.
C15_ChunkSize ==
    last.op = "create_chunks_with_metadata" =>
        /\ \A i \in 1..Len(last.chunks) :
              /\ Len(last.chunks[i].text) >= 1
              /\ Len(last.chunks[i].text) <= CHUNK_SIZE
              /\ ~IsBlank(last.chunks[i].text)
              /\ last.chunks[i].metadata.text = last.chunks[i].text
        /\ IsBlank(last.text) <=> last.chunks = <<>>

\* C15 witness: a word longer than CHUNK_SIZE was split into several chunks
C15_Witness ==
    /\ last.op = "create_chunks_with_metadata"
    /\ Len(last.text) > CHUNK_SIZE
    /\ \A j \in 1..Len(last.text) : ~IsSpace(last.text[j])
    /\ Len(last.chunks) >= 2

\* C16: the health endpoint answers 200 with status "ok", an api_version
\* and a vector_store field in every state; get_vector_store_status raises
\* nothing, a store that cannot be opened or counted shows as status
\* "error" inside vector_store, and otherwise the entry count is reported.
C16_HealthAlwaysAnswers ==
    last.op = "health_check" =>
        /\ ~last.exc
        /\ last.response.status_code = 200
        /\ last.response.status = "ok"
        /\ {"api_version", "vector_store"} \subseteq DOMAIN last.response
        /\ last.response.vector_store.status \in {"ok", "error"}
        /\ last.response.vector_store.status = "ok"
              => last.response.vector_store.document_count
                     = BagCardinality(index)

\* C16 witness: the health endpoint answered while the store of a
\* non-empty index could not be opened or counted
C16_Witness ==
    /\ last.op = "health_check"
    /\ last.response.status_code = 200
    /\ last.response.vector_store.status = "error"
    /\ index # EmptyBag

\* C17 as stated: whenever delete_document returns True, the stored file is
\* gone and the index holds no entry of the document.
C17_Original ==
    (last.op = "delete_document" /\ last.ret) =>
        /\ last.document_id \notin files
        /\ Matching(index, last.document_id) = EmptyBag

\* the step is the ingestion of a stored file that was read and gave no
\* chunk
ZeroChunks ==
    /\ last'.op = "process_document"
    /\ last'.readable
    /\ last'.text_chunks = <<>>

\* C18: an ingestion whose extraction yields zero chunks returns normally
\* without calling the add, leaves the index and the stored file as they
\* were, the file is still listed by list_documents, and the index holds no
\* entry of the document; the chunks a query returns are entries of the
\* index, so none is of that document.
C18_ZeroChunkDocument ==
    [][ /\ ZeroChunks =>
              /\ ~last'.exc
              /\ ~last'.add_called
              /\ index' = index
              /\ files' = files
              /\ last'.document_id \in files'
              /\ \E d \in list_documents(last'.user_id, files') :
                    d.id = last'.document_id
              /\ Matching(index', last'.document_id) = EmptyBag
        /\ last'.op = "query_vectorstore" =>
              \A i \in 1..Len(last'.docs) :
                  last'.docs[i] \in BagToSet(index') ]_vars

\* C18 witness: a stored file was read and gave no chunk, while the index
\* holds entries of another document
C18_Witness ==
    /\ last.op = "process_document"
    /\ last.readable
    /\ last.text_chunks = <<>>
    /\ last.document_id \in files
    /\ index # EmptyBag

\* C19 as stated: every query_documents call, whatever user_id it is given
\* (None and the empty string included), searches only the entries whose
\* metadata user_id equals that user_id, so it retrieves no other entry.
C19_Original ==
    last.op = "query_documents" =>
        \A i \in 1..Len(last.docs) :
            last.docs[i].metadata.user_id = last.user_id

\* C20 as stated: in the context block the i-th retrieved chunk is labelled
\* i and cited with its document name, followed by " (Page N)" exactly when
\* the chunk came from a PDF page N; a chunk of a DOCX or text document is
\* cited with the document name alone.
C20_Original ==
    Answered =>
        \A i \in 1..Len(last.docs) :
            /\ last.context[i].label = i
            /\ last.context[i].content = last.docs[i].text
            /\ last.context[i].source =
                  IF endswith(last.docs[i].metadata.document, ".pdf")
                  THEN <<last.docs[i].metadata.document, " (Page ",
                         last.docs[i].metadata.page, ")">>
                  ELSE <<last.docs[i].metadata.document>>

\* C21 as stated: when the extraction of one page of a PDF fails, that
\* page alone is skipped: every other non-blank page of the document still
\* gives chunks, which process_document hands to the index.
C21_Original ==
    (/\ last.op = "process_document"
     /\ endswith(DocumentOf(last.document_id).filename, ".pdf")
     /\ last.readable) =>
        \A i \in 1..Len(last.units) :
            (last.units[i].ok /\ ~IsBlank(last.units[i].text)) =>
                /\ last.add_called
                /\ \E j \in 1..Len(last.text_chunks) :
                      last.text_chunks[j].metadata.page = str(i)

\* C22 as stated: a successful get_vector_store_status reports
\* document_count equal to the number of index entries, and embedding_model
\* equal to the model get_embeddings selected, with or without an OpenAI key.
C22_Original ==
    (/\ last.op = "health_check"
     /\ ~last.exc
     /\ last.response.vector_store.status = "ok") =>
        /\ last.response.vector_store.document_count = BagCardinality(index)
        /\ last.response.vector_store.embedding_model =
              get_embeddings(OPENAI_API_KEY)

\* what delete_document does for a requester, over every behaviour of the
\* file system and the store
DeleteOutcomes(d, user_id) ==
    [fFs \in {NoFault, Down}, fStore \in StoreFaults, fDelete \in Outages |->
        delete_document(d, user_id, files, index, vector_store,
                        fFs, fStore, fDelete)]

\* C23: delete_document is keyed by document_id alone.  Whatever the file
\* system and the store do, a delete request does for its requester what it
\* would do for every other user_id, and a delete that ran to the store
\* without error removes the file and every index entry of the document,
\* whoever owns it.
C23_DeleteKeyedById ==
    [][ last'.op = "delete_document" =>
          /\ \A u \in Users :
                DeleteOutcomes(last'.document_id, u) =
                    DeleteOutcomes(last'.document_id, last'.user_id)
          /\ (last'.removed_file /\ ~last'.delete_exc) =>
                /\ last'.ret
                /\ last'.document_id \notin files'
                /\ index' = collection_delete(index, last'.document_id)
                /\ last'.removed =
                      BagCardinality(Matching(index, last'.document_id))
                /\ Matching(index', last'.document_id) = EmptyBag ]_vars

\* C23 witness: a user deleted a document stored for another user, and its
\* file and index entries are gone
C23_Witness ==
    /\ last.op = "delete_document"
    /\ last.document_id \in DocIds
    /\ DocumentOf(last.document_id).user_id # last.user_id
    /\ last.ret
    /\ last.removed >= 1
    /\ last.document_id \notin files
    /\ Matching(index, last.document_id) = EmptyBag

\* C24 as stated: list_documents(user_id) lists only documents stored for
\* that user.
C24_Original ==
    last.op = "list_documents" =>
        \A d \in last.documents : DocumentOf(d.id).user_id = last.user_id

\* C25 as stated: an upload whose content type is neither PDF nor DOCX is
\* answered with status 400, stores no file and schedules no ingestion.
C25_Original ==
    (last.op = "upload_document" /\ last.content_type \notin AcceptedTypes) =>
        /\ last.status_code = 400
        /\ last.document_id \notin files
        /\ last.document_id \notin tasks

\* both calls of the race have finished
BothDone == \A t \in Threads : threads[t].pc = "done"

\* C26 as stated: whatever the interleaving of the background ingestion of
\* a document with a delete_document for its id, once both have finished
\* and delete_document returned True the index has no entry of that id.
C26_Original ==
    (BothDone /\ threads["delete"].ret = "True") =>
        Matching(index, threads["delete"].document_id) = EmptyBag

\* C27 as stated: over all concurrent callers of get_vector_store the store
\* is constructed at most once and every caller that is handed a store is
\* handed the same instance.
C27_Original ==
    /\ Cardinality({t \in Threads : threads[t].built}) <= 1
    /\ \A t1 \in Threads, t2 \in Threads :
          (threads[t1].got # None /\ threads[t2].got # None) =>
              threads[t1].got = threads[t2].got

C29_Terminates ==
    <>(scraper.pc # "loop" /\ Len(scraper.content) <= scraper.max_pages)

\* C29 witness: the crawl ended on a site with a cycle of links (a queued
\* URL was found visited) and a failed request
C29_Witness ==
    /\ scraper.pc = "done"
    /\ Len(scraper.fetched) > Len(scraper.content)
    /\ Len(scraper.content) >= 1
    /\ scraper.pages_queue = <<>>

\* C30 as stated: whenever save_to_document succeeds, process_document is
\* handed the path the scrape was stored at, and the id and filename of
\* the stored file, whatever time passes between the two steps.
C30_Original ==
    (scraper.pc = "done" /\ ~scraper.document_info.error) =>
        /\ scraper.handed.called
        /\ scraper.handed.file_path = scraper.document_info.final_path
        /\ scraper.handed.document_id = scraper.document_info.id
        /\ scraper.handed.filename = scraper.document_info.filename

====
